---- MODULE Spec2Model ----
(***************************************************************************)
(* Model of uos_iot_client.py: the UrbanOS IoT MQTT client.                *)
(*                                                                         *)
(* Two threads of control: the producer (main thread) runs publish_point,  *)
(* the network thread (paho loop_start) runs the on_connect/on_disconnect  *)
(* callbacks and therefore OfflineQueue.drain_to.  queue.Queue makes each  *)
(* put_nowait / get_nowait / empty call atomic, so every such call is one  *)
(* step; the blocking broker publish inside _publish_raw is one step with  *)
(* a nondeterministic outcome.                                             *)
(*                                                                         *)
(* Python values are records [ty, val] so that values of different Python  *)
(* types stay comparable.                                                  *)
(***************************************************************************)
EXTENDS Integers, Sequences, FiniteSets, TLC

\* ------------------------------------------------------------------ bounds
MaxPublish == 3      \* samples the producer hands to publish_point
MaxTime    == 1      \* clock ticks (hours) the model follows
MaxCap     == 2      \* largest UOS_MAX_QUEUE that is configured
MaxTTL     == 1      \* largest UOS_SESSION_TTL_HOURS that is configured
MaxPayload == 2      \* samples published when every kind of sample is tried

\* ------------------------------------------------------------ Python values
None        == [ty |-> "NoneType", val |-> 0]
PyFloat(x)  == [ty |-> "float", val |-> x]
PyInt(x)    == [ty |-> "int", val |-> x]
PyStr(k)    == [ty |-> "str", val |-> k]       \* k = 0 is the empty string
PyTime(t)   == [ty |-> "datetime", val |-> t]

\* float(x) of a number
float(v) == [ty |-> "float", val |-> v.val]

\* Python truthiness of the values that reach an `or`
Truthy(v) ==
    CASE v.ty = "NoneType" -> FALSE
      [] v.ty = "str"      -> v.val # 0
      [] v.ty = "datetime" -> TRUE
      [] OTHER             -> v.val # 0

\* a or b
PyOr(a, b) == IF Truthy(a) THEN a ELSE b

\* datetime.isoformat()
isoformat(d) == [ty |-> "isostr", val |-> d.val]

\* json.dumps of one value
JsonValue(v) ==
    CASE v.ty = "NoneType" -> [ty |-> "json_null", val |-> 0]
      [] v.ty = "float"    -> [ty |-> "json_number", val |-> v.val]
      [] v.ty = "int"      -> [ty |-> "json_number", val |-> v.val]
      [] v.ty = "str"      -> [ty |-> "json_string", val |-> v.val]
      [] v.ty = "isostr"   -> [ty |-> "json_isostring", val |-> v.val]

\* json.dumps(payload, separators=(",", ":")): every key of the dict is emitted
json_dumps(p) == [k \in DOMAIN p |-> JsonValue(p[k])]

\* ------------------------------------------------------------------- state
VARIABLES
    MAX_QUEUE,          \* capacity of the offline queue (env UOS_MAX_QUEUE)
    SESSION_TTL_HOURS,  \* rotation period (env UOS_SESSION_TTL_HOURS)
    clock,              \* wall clock read by now_utc(), in hours
    client_id,          \* Session.client_id
    session_id,         \* Session.session_id
    start_time,         \* Session.start_time
    uuids,              \* number of uuid4 values drawn so far
    q,                  \* OfflineQueue.q, oldest first
    unfinished,         \* queue.Queue.unfinished_tasks
    connected,          \* the broker link accepts publishes
    stream,             \* samples the producer has yet to publish
    pcProd,             \* position of the producer thread
    cur,                \* the producer's local msg / call arguments
    pcNet,              \* position of the network thread
    item,               \* the network thread's popped message
    ledger,             \* history: per message, as created, and its publish attempts
    lastSend,           \* history: the latest call of client.publish
    pass,               \* history: the latest drain pass
    callAfter           \* history: the producer's call began after the latest
                        \* successful connect event

vars == <<MAX_QUEUE, SESSION_TTL_HOURS, clock, client_id, session_id, start_time,
          uuids, q, unfinished, connected, stream, pcProd, cur, pcNet, item,
          ledger, lastSend, pass, callAfter>>

\* ----------------------------------------------------------------- samples
Keys == {"lat", "lon", "elevation", "speed", "activity", "timestamp"}

Elevations == {None, PyInt(0), PyFloat(10)}
Speeds     == {None, PyFloat(1)}
Activities == {None, PyStr(0), PyStr(1)}
Timestamps == {None, PyTime(7)}

\* the n-th reading of the sensor: the position drifts, the rest is optional
Sample(n, e, s, a, t) ==
    [lat |-> PyInt(n), lon |-> PyFloat(18), elevation |-> e, speed |-> s,
     activity |-> a, timestamp |-> t]

\* readings as fake_sensor_stream yields them, stamped by the caller
SensorSample(n) == Sample(n, PyFloat(10), PyFloat(1), PyStr(1), PyTime(7))

AnySample(n) ==
    {Sample(n, e, s, a, t) : e \in Elevations, s \in Speeds, a \in Activities,
                             t \in Timestamps}

SensorStream == [n \in 1..MaxPublish |-> SensorSample(n)]

\* streams of MaxPayload readings whose last one is any sample at all
PayloadStreams ==
    {[n \in 1..MaxPayload |-> IF n < MaxPayload THEN SensorSample(n) ELSE last] :
        last \in AnySample(MaxPayload)}

\* -------------------------------------------------------------- pure parts
NoMsg == [id |-> 0, topic |-> <<>>, payload |-> [none |-> None]]

\* uuid.uuid4() rendered as text: the n-th draw, distinct from every other
Uuid(n) == <<"uuid", n>>

\* os.getenv("UOS_SESSION_ID") or self._new_session_id()
InitialSessionId(env) == IF env # <<>> THEN env ELSE Uuid(1)

\* TOPIC_TEMPLATE.format(client_id=..., session_id=...)
TopicFormat(cid, sid) == <<"client", cid, "session", sid>>

\* faulty variant: fields that are None are left out of the dict
BuildPayloadSparse(a, now) ==
    LET full == [lat       |-> float(a.lat),
                 lon       |-> float(a.lon),
                 elevation |-> IF a.elevation = None THEN None ELSE float(a.elevation),
                 speed     |-> IF a.speed = None THEN None ELSE float(a.speed),
                 activity  |-> PyOr(a.activity, None),
                 timestamp |-> isoformat(PyOr(a.timestamp, PyTime(now)))]
    IN [k \in {x \in Keys : full[x] # None} |-> full[k]]

\* the payload dict of publish_point
BuildPayload(a, now) ==
    [lat       |-> float(a.lat),
     lon       |-> float(a.lon),
     elevation |-> IF a.elevation = None THEN None ELSE float(a.elevation),
     speed     |-> IF a.speed = None THEN None ELSE float(a.speed),
     activity  |-> PyOr(a.activity, None),
     timestamp |-> isoformat(PyOr(a.timestamp, PyTime(now)))]

\* faulty variant: the topic is resolved again from the session when the message is sent
publish_raw_current(msg) ==
    [topic |-> TopicFormat(client_id, session_id), wire |-> json_dumps(msg.payload)]

\* what _publish_raw hands to client.publish for msg
publish_raw(msg) == [topic |-> msg.topic, wire |-> json_dumps(msg.payload)]

\* rc of client.publish / wait_for_publish: never success without a link
SendOutcomes == IF connected THEN {TRUE, FALSE} ELSE {FALSE}

SendRecord(msg, via, ok) ==
    [id |-> msg.id, via |-> via, ok |-> ok,
     topic |-> publish_raw(msg).topic, wire |-> publish_raw(msg).wire]

NoSend == [id |-> 0, via |-> "none", ok |-> FALSE, topic |-> <<>>,
           wire |-> [none |-> None]]

\* the ledger line of a message publish_point has just created from the
\* arguments args under session id sid
Created(msg, args, sid) ==
    [msg |-> msg, args |-> args, sid |-> sid, liveTries |-> 0, liveOks |-> 0,
     drainTries |-> 0, drainOks |-> 0, put |-> "none", evicted |-> 0]

\* the ledger after OfflineQueue.put has returned ret for msg
PutReturned(msg, ret) ==
    [ledger EXCEPT ![msg.id].put = IF ret THEN "true" ELSE "false"]

\* the ledger after put has given up the queued message old
Evicted(old) == [ledger EXCEPT ![old.id].evicted = @ + 1]

\* the ledger after one more publish attempt of msg
Attempted(msg, via, ok) ==
    IF via = "live"
      THEN [ledger EXCEPT ![msg.id].liveTries = @ + 1,
                          ![msg.id].liveOks = @ + (IF ok THEN 1 ELSE 0)]
      ELSE [ledger EXCEPT ![msg.id].drainTries = @ + 1,
                          ![msg.id].drainOks = @ + (IF ok THEN 1 ELSE 0)]

\* faulty variant: the queue built without its maxsize
QueueFullUnbounded == FALSE

\* queue.Queue(maxsize=maxsize) is full: maxsize <= 0 means unbounded
QueueFull == MAX_QUEUE > 0 /\ Len(q) >= MAX_QUEUE

\* faulty variant: put adds the message twice
QueuePutTwice(s, m) == Append(Append(s, m), m)

\* faulty variant: the new item goes to the front
QueuePutFront(s, m) == <<m>> \o s

\* self.q.put_nowait(item) on a queue with room
QueuePut(s, m) == Append(s, m)

\* faulty variant: put makes room by emptying the queue
EvictPopAll(s) == [got |-> Head(s), rest |-> <<>>]

\* faulty variant: put reads the oldest message and leaves it queued
EvictPopPeek(s) == [got |-> Head(s), rest |-> s]

\* faulty variant: put gives up the newest item
EvictPopNewest(s) == [got |-> s[Len(s)], rest |-> SubSeq(s, 1, Len(s) - 1)]

\* _ = self.q.get_nowait() in put: the item given up and the queue left
EvictPop(s) == [got |-> Head(s), rest |-> Tail(s)]

\* faulty variant: drain_to reads the oldest message and leaves it queued
DrainPopPeek(s) == [got |-> Head(s), rest |-> s]

\* faulty variant: drain_to takes the newest item
DrainPopNewest(s) == [got |-> s[Len(s)], rest |-> SubSeq(s, 1, Len(s) - 1)]

\* self.q.get_nowait() in drain_to: the item drained and the queue left
DrainPop(s) == [got |-> Head(s), rest |-> Tail(s)]

\* faulty variant: a failed send empties the queue
AfterDrainFailureClear(s, m) == <<>>

\* faulty variant: the message whose send failed goes back to the front
AfterDrainFailureRequeue(s, m) == <<m>> \o s

\* the queue after the except branch of drain_to: the popped message is not
\* put back (task_done, break)
AfterDrainFailure(s, m) == s

\* faulty variant: a failed live publish is swallowed without queueing
AfterLiveSwallow(ok) == "idle"

\* where publish_point goes after its _publish_raw: done, or on to offline.put
AfterLive(ok) == IF ok THEN "idle" ELSE "put"

\* faulty variant: the TTL must be exceeded, not reached
TTLExpiredStrict == clock - start_time > SESSION_TTL_HOURS

\* Session.maybe_rotate's condition
TTLExpired == clock - start_time >= SESSION_TTL_HOURS

Ids(s) == [i \in 1..Len(s) |-> s[i].id]

\* the latest drain pass: whether it is running, whether any has run, whether
\* it is the first, the ids queued at its start, the ids it handed to the send
\* function, whether it was halted, whether the producer changed the queue
\* while it ran, whether a failed send halted it and the ids then left behind,
\* the same two facts about the pass before it, and whether a pass has been
\* running at any time during the producer's current call of put, and how many
\* messages put has added to the queue while it ran
NoPass == [active |-> FALSE, ran |-> FALSE, first |-> FALSE, startQ |-> <<>>,
           att |-> <<>>, failed |-> FALSE, mixed |-> FALSE,
           halted |-> FALSE, left |-> <<>>,
           afterHalt |-> FALSE, prevLeft |-> <<>>, overPut |-> FALSE,
           puts |-> 0]

\* the producer is inside OfflineQueue.put
PutPath == {"put", "evict", "reput"}

\* a producer step that changes the queue while a drain pass is running
Mixed == IF pass.active THEN [pass EXCEPT !.mixed = TRUE] ELSE pass

\* a put that adds its message to the queue while a drain pass is running
Interleaved ==
    IF pass.active THEN [pass EXCEPT !.mixed = TRUE, !.puts = @ + 1] ELSE pass

\* -------------------------------------------------------------------- Init
InitWith(caps, ttls, envs, streams) ==
    /\ MAX_QUEUE \in caps
    /\ SESSION_TTL_HOURS \in ttls
    /\ clock = 0
    /\ client_id = "cli"
    /\ \E env \in envs :
          /\ session_id = InitialSessionId(env)
          /\ uuids = IF env # <<>> THEN 0 ELSE 1
    /\ start_time = 0
    /\ q = <<>>
    /\ unfinished = 0
    /\ connected = FALSE
    /\ stream \in streams
    /\ pcProd = "idle"
    /\ cur = NoMsg
    /\ pcNet = "idle"
    /\ item = NoMsg
    /\ ledger = <<>>
    /\ lastSend = NoSend
    /\ pass = NoPass
    /\ callAfter = FALSE

\* UOS_SESSION_ID: unset or empty, or a deployer's id
SessionEnv == {<<>>, <<"env", 0>>}

Init == InitWith(1..MaxCap, 1..MaxTTL, {<<>>}, {SensorStream})

config == <<MAX_QUEUE, SESSION_TTL_HOURS, client_id>>
session == <<session_id, start_time, uuids>>
net == <<pcNet, item, connected>>
hist == <<ledger, lastSend>>
link == <<pcNet, item, connected, lastSend>>

\* ---------------------------------------------------------------- producer
\* faulty variant: the topic is resolved before maybe_rotate, from the session
\* id that the call found
TopicSessionStale ==
    IF ledger = <<>> THEN session_id ELSE ledger[Len(ledger)].sid

\* the session id that publish_point formats the topic with: self.session is
\* read after maybe_rotate has returned
TopicSession == session_id

\* publish_point is called; Session.maybe_rotate tests the TTL and draws the id
publish_point ==
    /\ pcProd = "idle"
    /\ stream # <<>>
    /\ IF TTLExpired
         THEN /\ session_id' = Uuid(uuids + 1)
              /\ uuids' = uuids + 1
              /\ pcProd' = "restart"
         ELSE /\ UNCHANGED <<session_id, uuids>>
              /\ pcProd' = "build"
    /\ callAfter' = pass.ran
    /\ UNCHANGED <<config, clock, start_time, q, unfinished, stream, cur, net,
                   hist, pass>>

\* self.start_time = now_utc()
maybe_rotate_restart ==
    /\ pcProd = "restart"
    /\ start_time' = clock
    /\ pcProd' = "build"
    /\ UNCHANGED <<config, clock, session_id, uuids, q, unfinished, stream, cur,
                   net, hist, pass, callAfter>>

\* ts, payload, topic, msg
build_msg ==
    /\ pcProd = "build"
    /\ LET msg == [id      |-> Len(ledger) + 1,
                   topic   |-> TopicFormat(client_id, TopicSession),
                   payload |-> BuildPayload(Head(stream), clock)]
       IN /\ cur' = msg
          /\ ledger' = Append(ledger, Created(msg, Head(stream), session_id))
    /\ stream' = Tail(stream)
    /\ pcProd' = "send"
    /\ UNCHANGED <<config, clock, session, q, unfinished, net, lastSend, pass,
                   callAfter>>

\* try: self._publish_raw(msg) / except: ... self.offline.put(msg)
publish_live ==
    /\ pcProd = "send"
    /\ \E ok \in SendOutcomes :
          /\ lastSend' = SendRecord(cur, "live", ok)
          /\ ledger' = Attempted(cur, "live", ok)
          /\ pcProd' = AfterLive(ok)
          /\ cur' = IF AfterLive(ok) = "idle" THEN NoMsg ELSE cur
          /\ pass' = IF AfterLive(ok) = "put"
                       THEN [pass EXCEPT !.overPut = pass.active]
                       ELSE pass
    /\ UNCHANGED <<config, clock, session, q, unfinished, stream, net, callAfter>>

\* OfflineQueue.put: self.q.put_nowait(item); return True / except queue.Full
put_nowait ==
    /\ pcProd = "put"
    /\ IF QueueFull
         THEN /\ pcProd' = "evict"
              /\ UNCHANGED <<q, unfinished, cur, pass, ledger>>
         ELSE /\ q' = QueuePut(q, cur)
              /\ unfinished' = unfinished + 1
              /\ pcProd' = "idle"
              /\ cur' = NoMsg
              /\ pass' = Interleaved
              /\ ledger' = PutReturned(cur, TRUE)
    /\ UNCHANGED <<config, clock, session, stream, link, callAfter>>

\* _ = self.q.get_nowait(); queue.Empty is caught: return False
put_drop_oldest ==
    /\ pcProd = "evict"
    /\ IF q = <<>>
         THEN /\ pcProd' = "idle"
              /\ cur' = NoMsg
              /\ ledger' = PutReturned(cur, FALSE)
              /\ UNCHANGED <<q, pass>>
         ELSE /\ q' = EvictPop(q).rest
              /\ pcProd' = "reput"
              /\ pass' = Mixed
              /\ ledger' = Evicted(EvictPop(q).got)
              /\ UNCHANGED cur
    /\ UNCHANGED <<config, clock, session, unfinished, stream, link, callAfter>>

\* self.q.put_nowait(item); return True; queue.Full is caught: return False
put_again ==
    /\ pcProd = "reput"
    /\ IF QueueFull
         THEN /\ ledger' = PutReturned(cur, FALSE)
              /\ UNCHANGED <<q, unfinished, pass>>
         ELSE /\ q' = QueuePut(q, cur)
              /\ unfinished' = unfinished + 1
              /\ pass' = Interleaved
              /\ ledger' = PutReturned(cur, TRUE)
    /\ pcProd' = "idle"
    /\ cur' = NoMsg
    /\ UNCHANGED <<config, clock, session, stream, link, callAfter>>

\* ----------------------------------------------------------- network thread
\* faulty variant: every callback is dispatched on a thread of its own
CallbackFreeAlways == TRUE

\* loop_start runs one network thread and paho calls on_connect and
\* on_disconnect from it: a callback starts only when none is running
CallbackFree == pcNet = "idle"

\* faulty variant: on_connect drains whatever the return code
DrainOnConnectAny(rc) == TRUE

\* if rc == 0
DrainOnConnect(rc) == rc = 0

\* on_connect(rc): rc = 0 (the broker accepted, the link is up) starts
\* drain_to, any other rc is only logged
on_connect ==
    /\ CallbackFree
    /\ ~connected
    /\ \E rc \in {0, 5} :
          /\ connected' = (rc = 0)
          /\ IF DrainOnConnect(rc)
            THEN /\ pcNet' = "drain_check"
                 /\ pass' = [NoPass EXCEPT !.active = TRUE, !.ran = TRUE,
                                           !.first = ~pass.ran,
                                           !.startQ = Ids(q),
                                           !.afterHalt = pass.halted,
                                           !.prevLeft = pass.left,
                                           !.overPut = pcProd \in PutPath]
                 /\ callAfter' = FALSE
            ELSE UNCHANGED <<pcNet, pass, callAfter>>
    /\ UNCHANGED <<config, clock, session, q, unfinished, stream, pcProd, cur,
                   item, hist>>

\* on_disconnect(rc): rc # 0 is logged, rc = 0 not even that; the link is gone
on_disconnect ==
    /\ CallbackFree
    /\ connected
    /\ \E rc \in {0, 7} : connected' = FALSE
    /\ UNCHANGED <<config, clock, session, q, unfinished, stream, pcProd, cur,
                   pcNet, item, hist, pass, callAfter>>

\* while not self.q.empty()
drain_check ==
    /\ pcNet = "drain_check"
    /\ IF q = <<>>
         THEN pcNet' = "idle" /\ pass' = [pass EXCEPT !.active = FALSE]
         ELSE pcNet' = "drain_get" /\ pass' = pass
    /\ UNCHANGED <<config, clock, session, q, unfinished, connected, stream,
                   pcProd, cur, item, hist, callAfter>>

\* self.q.get_nowait(); queue.Empty lands in the except branch: task_done, break
drain_get ==
    /\ pcNet = "drain_get"
    /\ IF q = <<>>
         THEN /\ pcNet' = "idle"
              /\ pass' = [pass EXCEPT !.active = FALSE, !.failed = TRUE]
              /\ unfinished' = IF unfinished > 0 THEN unfinished - 1 ELSE 0
              /\ UNCHANGED <<q, item>>
         ELSE /\ item' = DrainPop(q).got
              /\ q' = DrainPop(q).rest
              /\ pcNet' = "drain_send"
              /\ UNCHANGED <<pass, unfinished>>
    /\ UNCHANGED <<config, clock, session, connected, stream, pcProd, cur, hist, callAfter>>

\* fn_publish(item); sent += 1; task_done / except: task_done; break
\* (task_done raises ValueError at unfinished = 0 and ends drain_to)
drain_send ==
    /\ pcNet = "drain_send"
    /\ \E ok \in SendOutcomes :
          /\ lastSend' = SendRecord(item, "drain", ok)
          /\ ledger' = Attempted(item, "drain", ok)
          /\ q' = IF ok THEN q ELSE AfterDrainFailure(q, item)
          /\ IF ok /\ unfinished > 0
               THEN /\ pcNet' = "drain_check"
                    /\ pass' = [pass EXCEPT !.att = Append(@, item.id)]
               ELSE /\ pcNet' = "idle"
                    /\ pass' = [pass EXCEPT !.att = Append(@, item.id),
                                            !.active = FALSE, !.failed = ~ok,
                                            !.halted = ~ok,
                                            !.left = IF ok THEN <<>> ELSE Ids(q)]
    /\ unfinished' = IF unfinished > 0 THEN unfinished - 1 ELSE 0
    /\ item' = NoMsg
    /\ UNCHANGED <<config, clock, session, connected, stream, pcProd, cur,
                   callAfter>>

\* ------------------------------------------------------------------- clock
tick ==
    /\ clock < MaxTime
    /\ clock' = clock + 1
    /\ UNCHANGED <<config, session, q, unfinished, stream, pcProd, cur, net,
                   hist, pass, callAfter>>

Next ==
    \/ publish_point
    \/ maybe_rotate_restart
    \/ build_msg
    \/ publish_live
    \/ put_nowait
    \/ put_drop_oldest
    \/ put_again
    \/ on_connect
    \/ on_disconnect
    \/ drain_check
    \/ drain_get
    \/ drain_send
    \/ tick

Spec == Init /\ [][Next]_vars

\* every kind of sample, through a queue of one slot, under a deployer's
\* session id and within one hour of the clock
InitPayload == InitWith({1}, {1}, SessionEnv \ {<<>>}, PayloadStreams)

NextPayload ==
    \/ publish_point
    \/ build_msg
    \/ publish_live
    \/ put_nowait
    \/ put_drop_oldest
    \/ put_again
    \/ on_connect
    \/ on_disconnect
    \/ drain_check
    \/ drain_get
    \/ drain_send

SpecPayload == InitPayload /\ [][NextPayload]_vars

\* the network thread keeps running: the loop of drain_to tests, pops and
\* sends, and each send call returns
DrainFairness ==
    /\ WF_vars(drain_check)
    /\ WF_vars(drain_get)
    /\ WF_vars(drain_send)

\* the drain loop against the producer, every queue size, within one hour of
\* the clock
InitDrain == InitWith(1..MaxCap, {MaxTTL}, {<<>>}, {SensorStream})

SpecFair == InitDrain /\ [][NextPayload]_vars /\ DrainFairness

\* ------------------------------------------------------------------ claims
SeqTo(n) == [i \in 1..n |-> i]

Min(a, b) == IF a < b THEN a ELSE b

\* the newest c of the ids 1..n, oldest first
LastIds(n, c) == [i \in 1..Min(n, c) |-> n - Min(n, c) + i]

Range(s) == {s[i] : i \in 1..Len(s)}

Increasing(s) == \A i, j \in 1..Len(s) : i < j => s[i] < s[j]

\* the step in which a drain pass ends
PassEnds == pass.active /\ ~pass'.active

\* C1: once a connect event has succeeded, no sample handed to publish_point
\* after it is sent live while a message that was queued at that connect
\* event is still in the offline queue.
C1_FlushBeforeLive ==
    [][(pcProd = "send" /\ pcProd' = "idle" /\ callAfter)
         => \A i \in 1..Len(q) : q[i].id \notin Range(pass.startQ)]_vars

\* C2: samples published before any connect event, no more than the capacity,
\* are all queued in publish order with none sent; the first drain pass, with
\* no failed send and no publish_point beside it, sends exactly those messages
\* in publish order, each once, and leaves the queue empty.
C2_OfflineThenDrain ==
    /\ [](~pass.ran /\ pcProd = "idle" /\ Len(ledger) <= MAX_QUEUE
            => /\ q = [i \in 1..Len(ledger) |-> ledger[i].msg]
               /\ \A i \in 1..Len(ledger) :
                     /\ ledger[i].liveOks = 0
                     /\ ledger[i].drainTries = 0)
    /\ [][(PassEnds /\ pass'.first /\ ~pass'.failed /\ pcProd' = "idle"
             /\ Len(ledger') = Len(pass'.startQ))
            => /\ pass'.att = SeqTo(Len(ledger'))
               /\ q' = <<>>
               /\ \A i \in 1..Len(ledger') :
                     /\ ledger'[i].drainTries = 1
                     /\ ledger'[i].drainOks = 1
                     /\ ledger'[i].liveOks = 0]_vars

C2_Witness ==
    /\ pass.first /\ ~pass.active /\ ~pass.failed
    /\ pcProd = "idle"
    /\ Len(ledger) = 2
    /\ pass.startQ = <<1, 2>>
    /\ pass.att = <<1, 2>>
    /\ q = <<>>

\* C3: in every reachable state the offline queue holds at most MAX_QUEUE
\* messages, however puts and drain passes interleave.
C3_CapacityInvariant == Len(q) <= MAX_QUEUE

C3_Witness ==
    /\ pass.active /\ pass.mixed
    /\ Len(q) = MAX_QUEUE
    /\ q[1].id > 1

\* C4: with no drain pass so far, the queue holds the newest MAX_QUEUE of the
\* messages put, oldest first (after MAX_QUEUE + 1 puts: items 2..MAX_QUEUE + 1,
\* item 1 gone); the drain pass that follows, with no failed send and no put
\* beside it, sends them in that order.
C4_OldestDrop ==
    /\ (~pass.ran /\ pcProd = "idle")
          => Ids(q) = LastIds(Len(ledger), MAX_QUEUE)
    /\ (pass.first /\ ~pass.active /\ ~pass.failed /\ ~pass.mixed)
          => pass.att = pass.startQ

C4_Witness ==
    /\ MAX_QUEUE = 2
    /\ pass.first /\ ~pass.active /\ ~pass.failed /\ ~pass.mixed
    /\ pass.startQ = <<2, 3>>
    /\ pass.att = <<2, 3>>
    /\ q = <<>>

\* C5: in a drain pass with no failed send, the messages handed to the send
\* function come in the order they were put (ids count the puts), also when
\* puts are interleaved with the pass.
C5_DrainFifo == ~pass.failed => Increasing(pass.att)

C5_Witness ==
    /\ pass.ran /\ ~pass.active /\ ~pass.failed /\ pass.mixed
    /\ Len(pass.att) >= 2
    /\ \E i \in 1..Len(pass.att) : pass.att[i] \notin Range(pass.startQ)

\* C6: when the k-th send of a drain pass fails (no put beside the pass), the
\* queue is left holding items k..n of the pass's start, the failed item
\* included, in order.
C6_FailedItemKept ==
    [][(pcNet = "drain_send" /\ PassEnds /\ pass'.failed /\ ~pass'.mixed)
         => Ids(q') = SubSeq(pass'.startQ, Len(pass'.att), Len(pass'.startQ))]_vars

\* C7: every message handed to the send function by a drain pass goes out
\* under the topic resolved when publish_point created it, which holds the
\* session id of that time, whatever the session id is by then; a queued
\* message keeps that topic while it waits.
C7_TopicStable ==
    /\ lastSend.via = "drain"
          => /\ lastSend.topic = TopicFormat(client_id, ledger[lastSend.id].sid)
             /\ lastSend.topic = ledger[lastSend.id].msg.topic
    /\ \A i \in 1..Len(q) :
          q[i].topic = TopicFormat(client_id, ledger[q[i].id].sid)

C7_Witness ==
    /\ lastSend.via = "drain"
    /\ lastSend.ok
    /\ ledger[lastSend.id].sid # session_id

\* the step in which publish_point runs the session's tick
TickStep == pcProd = "idle" /\ pcProd' # "idle"

\* the step in which a rotating tick resets start_time
RestartStep == pcProd = "restart" /\ pcProd' # "restart"

\* C8: session_id changes exactly in a tick that finds the time elapsed since
\* start_time to be SESSION_TTL_HOURS or more; such a tick draws an id unlike
\* every earlier one and resets start_time, after which the TTL is no longer
\* expired; a tick before the TTL changes neither; nothing else changes
\* session_id, start_time or client_id, and session_id is never empty.
C8_SessionRotation ==
    /\ [](session_id # <<>>)
    /\ [][LET due == clock - start_time >= SESSION_TTL_HOURS
          IN /\ client_id' = client_id
             /\ (session_id' # session_id) <=> (TickStep /\ due)
             /\ (TickStep /\ due)
                   => /\ pcProd' = "restart"
                      /\ \A i \in 1..Len(ledger) : ledger[i].sid # session_id'
             /\ (TickStep /\ ~due)
                   => pcProd' = "build" /\ start_time' = start_time
             /\ (start_time' # start_time) => RestartStep
             /\ RestartStep
                   => /\ start_time' = clock
                      /\ ~(clock' - start_time' >= SESSION_TTL_HOURS)]_vars

C8_Witness ==
    /\ pcProd = "build"
    /\ Len(ledger) = 2
    /\ ledger[1].sid # session_id
    /\ ledger[2].sid = session_id
    /\ start_time = clock
    /\ start_time > 0


\* C9 as stated: when publish_point returns after a failed live attempt, its
\* message is in the offline queue.
C9_QueuedOnFailure ==
    [][(pcProd \in PutPath /\ pcProd' = "idle")
         => \E i \in 1..Len(q') : q'[i] = cur]_vars

\* C9 as amended: publish_point makes exactly one live attempt for its sample;
\* a successful attempt returns and leaves the queue as it is; a failed one
\* goes on to offline.put with that message and returns normally, the message
\* being the newest of the queue unless put returned False because a drain
\* had emptied the queue before the eviction; a queued message is one whose
\* live attempt failed.
C9_OneAttempt ==
    /\ [](\A i \in 1..Len(ledger) :
             ledger[i].liveTries
                = IF i = Len(ledger) /\ pcProd = "send" THEN 0 ELSE 1)
    /\ [](\A i \in 1..Len(q) :
             /\ q[i] = ledger[q[i].id].msg
             /\ ledger[q[i].id].liveTries = 1
             /\ ledger[q[i].id].liveOks = 0)
    /\ [][/\ (pcProd = "send" /\ pcProd' # "send")
               => /\ q' = q
                  /\ \/ ledger'[cur.id].liveOks = 1 /\ pcProd' = "idle"
                     \/ /\ ledger'[cur.id].liveOks = 0
                        /\ pcProd' = "put"
                        /\ cur' = cur
          /\ (pcProd \in PutPath /\ pcProd' = "idle")
               => \/ q' # <<>> /\ q'[Len(q')] = cur
                  \/ pcProd = "evict" /\ q = <<>> /\ q' = q]_vars

C9_Witness ==
    /\ connected
    /\ pcProd = "idle"
    /\ q # <<>>
    /\ q[Len(q)].id = Len(ledger)
    /\ \E i \in 1..Len(ledger) : ledger[i].liveOks = 1

JsonNull == JsonValue(None)

\* the JSON object w is the six-key rendering of the arguments a
WireOk(w, a) ==
    /\ DOMAIN w = Keys
    /\ w.lat = [ty |-> "json_number", val |-> a.lat.val]
    /\ w.lon = [ty |-> "json_number", val |-> a.lon.val]
    /\ w.elevation = IF a.elevation = None THEN JsonNull
                     ELSE [ty |-> "json_number", val |-> a.elevation.val]
    /\ w.speed = IF a.speed = None THEN JsonNull
                 ELSE [ty |-> "json_number", val |-> a.speed.val]
    /\ w.activity = IF a.activity = None \/ a.activity = PyStr(0) THEN JsonNull
                    ELSE [ty |-> "json_string", val |-> a.activity.val]
    /\ w.timestamp.ty = "json_isostring"
    /\ a.timestamp # None => w.timestamp.val = a.timestamp.val

InQueue(i) == Cardinality({k \in 1..Len(q) : q[k].id = i})

InHand(i) == IF pcNet = "drain_send" /\ item.id = i THEN 1 ELSE 0

\* the places a message handed to put has gone to, counted
Fates(i) == InQueue(i) + InHand(i) + ledger[i].drainTries + ledger[i].evicted

\* C11 as stated: once put has returned for a message, the message is exactly
\* one of queued once, handed to send by a drain once, or evicted as the oldest
\* by a later put; put never discards its own new message.
C11_NoLostUpdate ==
    \A i \in 1..Len(ledger) :
        ledger[i].put # "none" => ledger[i].put = "true" /\ Fates(i) = 1

\* C11 (amended): a message for which put returned True is exactly one of
\* queued once, handed to send by a drain once, or evicted as the oldest by a
\* later put; a message for which put returned False is in none of these
\* places, and put returns False only from its eviction step, on a queue that a
\* drain pass has emptied since put found it full.
C11_ExactlyOneFate ==
    /\ [](\A i \in 1..Len(ledger) :
            /\ ledger[i].put = "true" => Fates(i) = 1
            /\ ledger[i].put = "false" => Fates(i) = 0
            /\ ledger[i].liveOks = 1 => ledger[i].put = "none" /\ Fates(i) = 0)
    /\ [][\A i \in 1..Len(ledger) :
            ledger[i].put = "none" /\ ledger'[i].put = "false"
                => /\ pcProd = "evict" /\ cur.id = i
                   /\ q = <<>> /\ q' = <<>>
                   /\ pass.ran
                   /\ \/ \E j \in 1..Len(ledger) : ledger[j].drainTries = 1
                      \/ pcNet = "drain_send"]_vars

\* a put interleaved with a drain pass, and all three fates side by side
C11_Witness ==
    /\ pass.mixed
    /\ \E i, j, k \in 1..Len(ledger) :
          /\ ledger[i].evicted = 1
          /\ ledger[j].drainTries = 1
          /\ InQueue(k) = 1
          /\ \A n \in {i, j, k} : ledger[n].put = "true" /\ Fates(n) = 1

\* ------------------------------------------------------------------- C12
\* the step in which the send of a drain pass fails
DrainSendFails ==
    /\ pcNet = "drain_send" /\ pcNet' # "drain_send"
    /\ ledger'[item.id].drainOks = 0

IsPrefix(a, b) == Len(a) <= Len(b) /\ SubSeq(b, 1, Len(a)) = a

\* the ids of s that are in the set S, in the order of s
Keep(s, S) == LET In(x) == x \in S IN SelectSeq(s, In)

\* of the ids left behind by the halted pass, those no put has evicted
Alive(s) == LET NotEvicted(x) == ledger[x].evicted = 0 IN SelectSeq(s, NotEvicted)

\* C13: a pass halted by a failed send leaves the messages behind the failed
\* one queued in their order; at the next successful connect each of them is
\* still queued unless a put has evicted it, they are ahead of every newer
\* message, and the new pass hands the oldest remaining one to send first.
C13_ResumeFromOldest ==
    /\ [](pass.afterHalt
            => /\ \A id \in Range(pass.prevLeft) :
                      id \in Range(pass.startQ) \/ ledger[id].evicted = 1
               /\ Keep(pass.startQ, Range(pass.prevLeft))
                      = Keep(pass.prevLeft, Range(pass.startQ))
               /\ IsPrefix(Keep(pass.prevLeft, Range(pass.startQ)), pass.startQ)
               /\ pass.att # <<>> /\ Alive(pass.prevLeft) # <<>>
                      => pass.att[1] = Alive(pass.prevLeft)[1])
    /\ [][DrainSendFails
            => /\ q' = q
               /\ pass'.halted /\ pass'.left = Ids(q)]_vars
    /\ [][~pass.active /\ pass'.active
            => /\ pass'.startQ = Ids(q) /\ q' = q
               /\ pass'.afterHalt = pass.halted
               /\ pass'.prevLeft = pass.left]_vars

\* message 1 failed in a pass that left message 2 behind; message 3 was queued
\* afterwards and the next pass sent 2, then 3
C13_Witness ==
    /\ pass.afterHalt
    /\ pass.prevLeft = <<2>>
    /\ pass.startQ = <<2, 3>>
    /\ pass.att = <<2, 3>>
    /\ ~pass.active /\ ~pass.failed

\* ------------------------------------------------------------------- C14
\* the step in which on_connect enters drain_to
PassStarts == pass'.active /\ pass'.att = <<>> /\ connected' /\ ~connected

PutReturns == pcProd \in PutPath /\ pcProd' = "idle"

\* C15: put returns False, dropping the new item, only when its eviction step
\* fails (get_nowait finds the queue empty); when no drain pass runs at any
\* time during the put, put returns True, also on a queue at capacity, and the
\* item is then the newest of the queue.
C15_PutAdmits ==
    [][PutReturns
        => /\ ledger'[cur.id].put \in {"true", "false"}
           /\ ledger'[cur.id].put = "false"
                 => pcProd = "evict" /\ q = <<>> /\ pass.overPut
           /\ ~pass.overPut
                 => /\ ledger'[cur.id].put = "true"
                    /\ q' # <<>> /\ q'[Len(q')] = cur
                    /\ Len(q') <= MAX_QUEUE
                    /\ InQueue(cur.id) = 0]_vars

\* no drain pass has ever run, the queue is at capacity, and put has admitted
\* message 3 by evicting message 1
C15_Witness ==
    /\ ~pass.ran
    /\ pcProd = "idle"
    /\ Len(ledger) = 3
    /\ ledger[3].put = "true" /\ InQueue(3) = 1
    /\ ledger[1].evicted = 1
    /\ Len(q) = MAX_QUEUE

\* ------------------------------------------------------------------- C16
\* the step in which publish_point builds its message
BuildStep == pcProd = "build" /\ pcProd' = "send"

\* C16: publish_point ticks the session before it resolves the topic: the
\* message it builds, and then sends or queues, bears the session id current
\* after the tick of the same call. A tick at elapsed >= TTL draws an id that
\* no earlier sample bears, a tick before that keeps the id, and nothing
\* between the tick and the end of the call changes it.
C16_TickBeforeTopic ==
    /\ [](pcProd \in {"send"} \cup PutPath
            => /\ cur.topic = TopicFormat(client_id, session_id)
               /\ ledger[cur.id].sid = session_id)
    /\ [](lastSend.via # "none"
            => lastSend.topic = TopicFormat(client_id, ledger[lastSend.id].sid))
    /\ [](\A k \in 1..Len(q) :
            q[k].topic = TopicFormat(client_id, ledger[q[k].id].sid))
    /\ [][BuildStep
            => /\ cur'.topic = TopicFormat(client_id, session_id)
               /\ session_id' = session_id]_vars
    /\ [][TickStep
            => IF clock - start_time >= SESSION_TTL_HOURS
                 THEN \A i \in 1..Len(ledger) :
                         /\ ledger[i].sid # session_id'
                         /\ ledger[i].msg.topic
                               # TopicFormat(client_id, session_id')
                 ELSE session_id' = session_id]_vars
    /\ [][pcProd # "idle" => session_id' = session_id]_vars

\* sample 1 went out under the first session id; sample 2, published at the
\* TTL, failed live and is queued under the new one
C16_Witness ==
    /\ Len(ledger) = 2
    /\ ledger[1].liveOks = 1
    /\ ledger[1].sid # ledger[2].sid
    /\ ledger[2].sid = session_id
    /\ InQueue(2) = 1
    /\ q[1].topic = TopicFormat(client_id, session_id)
    /\ pcProd = "idle"

\* ------------------------------------------------------------------- C17
\* the step of a disconnect event
DisconnectStep == connected /\ ~connected'

\* C17: a disconnect event, whatever its return code, leaves the offline
\* queue and the session unchanged and sends nothing, and so does a connect
\* event with rc # 0, which changes no part of the state at all; a drain pass
\* starts, and a queued message is popped and sent, only from a connect event
\* with rc = 0, the one that brings the link up.
C17_OnlyConnectDrains ==
    /\ [][DisconnectStep
            => /\ UNCHANGED <<q, unfinished, session, ledger, lastSend>>
               /\ UNCHANGED <<pcNet, item, pass>>
               /\ pcNet = "idle"]_vars
    /\ [][~pass.active /\ pass'.active
            => /\ ~connected /\ connected'
               /\ pcNet = "idle" /\ pcNet' = "drain_check"
               /\ UNCHANGED <<q, unfinished, session, ledger, lastSend>>]_vars
    /\ [][pcNet = "idle" /\ pcNet' # "idle" => ~pass.active /\ pass'.active]_vars
    /\ [][lastSend' # lastSend /\ lastSend'.via = "drain" => pass.active]_vars

\* the link has gone down after a halted pass: the messages it left are queued
\* and no pass is running
C17_Witness ==
    /\ ~connected
    /\ pass.ran /\ ~pass.active /\ pass.halted
    /\ pcNet = "idle"
    /\ q # <<>> /\ Ids(q) = pass.left

\* ------------------------------------------------------------------- C18
\* message i is queued before the step and not after it
Leaves(i) ==
    /\ \E k \in 1..Len(q) : q[k].id = i
    /\ ~\E k \in 1..Len(q') : q'[k].id = i

\* the step in which publish_point makes its live send
LiveStep == pcProd = "send" /\ pcProd' # "send"

\* C18: a message leaves the offline queue only as the oldest one, popped
\* either by a running drain pass or by the eviction step of a put that found
\* the queue full; the live send of publish_point sends the sample of its own
\* call, never a queued message, and leaves the queue alone; so while no pass
\* runs, whatever the link and the live sends do, a queued message stays
\* queued unless a put evicts it.
C18_QueueExits ==
    /\ [][\A i \in 1..Len(ledger) :
            Leaves(i)
               => /\ i = q[1].id /\ q' = Tail(q)
                  /\ \/ /\ pcNet = "drain_get" /\ pass.active
                        /\ item' = q[1] /\ pcNet' = "drain_send"
                     \/ /\ pcProd = "evict" /\ pcProd' = "reput"
                        /\ ledger'[i].evicted = 1]_vars
    /\ [][pcProd' = "evict" /\ pcProd # "evict"
            => pcProd = "put" /\ Len(q) >= MAX_QUEUE]_vars
    /\ [][LiveStep
            => /\ lastSend'.id = cur.id /\ lastSend'.via = "live"
               /\ \A k \in 1..Len(q) : q[k].id # cur.id
               /\ ledger[cur.id].put = "none"
               /\ q' = q]_vars
    /\ [][~pass.active /\ ~pass'.active
            => \/ q' = q
               \/ q' = Append(q, cur) /\ pcProd \in PutPath
               \/ q' = Tail(q) /\ pcProd = "evict"]_vars

\* the link is up, the last pass found the queue empty, message i was queued
\* after it and is still queued although a later sample went out live
C18_Witness ==
    /\ connected /\ pcNet = "idle"
    /\ pass.ran /\ ~pass.failed /\ pass.att = <<>>
    /\ \E i, j \in 1..Len(ledger) :
          /\ i < j
          /\ q = <<ledger[i].msg>>
          /\ ledger[j].liveOks = 1

\* ------------------------------------------------------------------- C19
\* C19: every drain pass terminates. The pass ends only on observing the
\* queue empty or on a failed send, so no send before its last one has
\* failed, and the sends it attempts, the message in hand included, are at
\* most the messages queued at its start plus those put while it ran.
C19_DrainTerminates ==
    /\ pass.active ~> ~pass.active
    /\ [](Len(pass.att) + (IF pcNet = "drain_send" THEN 1 ELSE 0)
            <= Len(pass.startQ) + pass.puts)
    /\ [](pass.active
            => \A k \in 1..Len(pass.att) : ledger[pass.att[k]].drainOks = 1)
    /\ [][PassEnds
            => \/ pcNet \in {"drain_check", "drain_get"} /\ q = <<>>
               \/ /\ pcNet = "drain_send"
                  /\ ledger'[item.id].drainOks = 0
                  /\ pass'.failed]_vars

\* a pass has ended on an empty queue after sending more messages than were
\* queued at its start
C19_Witness ==
    /\ ~pass.active /\ ~pass.failed
    /\ pass.puts > 0
    /\ Len(pass.att) = Len(pass.startQ) + pass.puts
    /\ Len(pass.startQ) > 0
====
